---- MODULE Spec2Model ----
(***************************************************************************)
(* Model of src/main.py: the Flask backend that relays an image to the     *)
(* Gradio BaldnessDetector, sends the result to Gemini and reshapes the    *)
(* free-text answer into the structured response.                          *)
(*                                                                         *)
(* Text is a sequence of tokens.  A token is one character, except that a  *)
(* section header of sections_mapping and the section delimiter are one    *)
(* token each: no header is a substring of another header, and the         *)
(* characters the inputs are drawn from cannot spell a header or the       *)
(* delimiter, so every occurrence of a header in a text is such a token.   *)
(***************************************************************************)
EXTENDS Integers, Sequences, FiniteSets, TLC

\* ------------------------------------------------------------------------
\* Python string primitives used by main.py
\* ------------------------------------------------------------------------

WS == {" ", "\n"}

Digits == {"0", "1", "2", "3", "4", "5", "6", "7", "8", "9"}

ListMarkers == {"-", "*"}

SetMin(S) == CHOOSE x \in S : \A y \in S : x <= y

SetMax(S) == CHOOSE x \in S : \A y \in S : x >= y

\* str.strip()
Strip(s) ==
    LET idx == {i \in 1..Len(s) : s[i] \notin WS}
    IN  IF idx = {} THEN <<>> ELSE SubSeq(s, SetMin(idx), SetMax(idx))

\* str.replace(c, '') for a single character c
RemoveChar(s, c) == SelectSeq(s, LAMBDA x : x # c)

StartsWith(s, pat) == Len(pat) <= Len(s) /\ SubSeq(s, 1, Len(pat)) = pat

\* str.replace(pat, rep): leftmost, non-overlapping occurrences
RECURSIVE Replace(_, _, _)
Replace(s, pat, rep) ==
    IF s = <<>> THEN <<>>
    ELSE IF StartsWith(s, pat)
         THEN rep \o Replace(SubSeq(s, Len(pat) + 1, Len(s)), pat, rep)
         ELSE <<Head(s)>> \o Replace(Tail(s), pat, rep)

\* str.split(sep) for a one-token separator
RECURSIVE SplitOn(_, _)
SplitOn(s, sep) ==
    LET idx == {i \in 1..Len(s) : s[i] = sep}
    IN  IF idx = {} THEN <<s>>
        ELSE LET i == SetMin(idx)
             IN  <<SubSeq(s, 1, i - 1)>> \o SplitOn(SubSeq(s, i + 1, Len(s)), sep)

DigitVal(c) ==
    CASE c = "0" -> 0 [] c = "1" -> 1 [] c = "2" -> 2 [] c = "3" -> 3
      [] c = "4" -> 4 [] c = "5" -> 5 [] c = "6" -> 6 [] c = "7" -> 7
      [] c = "8" -> 8 [] c = "9" -> 9

RECURSIVE DecimalValue(_)
DecimalValue(ds) ==
    IF ds = <<>> THEN 0
    ELSE 10 * DecimalValue(SubSeq(ds, 1, Len(ds) - 1)) + DigitVal(ds[Len(ds)])

\* int(s): surrounding whitespace is ignored, one optional sign, then one or
\* more digits; anything else raises ValueError (ok = FALSE)
ParseInt(s) ==
    LET t    == Strip(s)
        sgn  == t # <<>> /\ t[1] \in {"-", "+"}
        body == IF sgn THEN Tail(t) ELSE t
        good == body # <<>> /\ \A i \in 1..Len(body) : body[i] \in Digits
    IN  IF good
        THEN [ok |-> TRUE,
              val |-> IF sgn /\ t[1] = "-" THEN 0 - DecimalValue(body)
                      ELSE DecimalValue(body)]
        ELSE [ok |-> FALSE, val |-> 0]

\* ------------------------------------------------------------------------
\* Section splitting (main.py 182-214)
\* ------------------------------------------------------------------------

SECTION_DELIMITER == "---SECTION_DELIMITER---"

sections_mapping ==
    << [header |-> "SYMPTOMS:", key |-> "symptoms"],
       [header |-> "MAIN ISSUES (Confidence in Specific Concerns):", key |-> "main_issues"],
       [header |-> "OVERALL HAIR HEALTH PERCENTAGE (Overall Confidence):",
        key |-> "overall_health_percentage"],
       [header |-> "CAUSES:", key |-> "causes"],
       [header |-> "TREATMENTS:", key |-> "treatments"] >>

Headers == {sections_mapping[i].header : i \in 1..Len(sections_mapping)}

Bold(h) == <<"*", "*", h, "*", "*">>

\* the turn without the replacement of the bold form (line 196 left out)
DelimitPlainHeaderOnly(text, h) == Replace(text, <<h>>, <<SECTION_DELIMITER, h>>)

\* one turn of the loop at 194-197 for the header h
DelimitHeader(text, h) ==
    Replace(Replace(text, Bold(h), <<SECTION_DELIMITER, h>>),
            <<h>>, <<SECTION_DELIMITER, h>>)

\* the loop at 194-197 from the i-th header on
RECURSIVE InsertDelimiters(_, _)
InsertDelimiters(text, i) ==
    IF i > Len(sections_mapping) THEN text
    ELSE InsertDelimiters(DelimitHeader(text, sections_mapping[i].header), i + 1)

\* sections_raw of line 200
SectionsRaw(text) == SplitOn(InsertDelimiters(text, 1), SECTION_DELIMITER)

\* the inner loop 208-214: first header, in template order, the block starts with
MatchedHeader(block) ==
    LET hits == {i \in 1..Len(sections_mapping) : block[1] = sections_mapping[i].header}
    IN  IF block = <<>> \/ hits = {} THEN 0 ELSE SetMin(hits)

\* dict assignment parsed_content[key] = content
DictPut(d, key, content) ==
    [k \in (DOMAIN d) \cup {key} |-> IF k = key THEN content ELSE d[k]]

\* dict.get(key, default)
DictGet(d, key, default) == IF key \in DOMAIN d THEN d[key] ELSE default

\* the loop body if an empty body did not overwrite an earlier one
StoreSectionUnlessEmpty(d, section_block) ==
    LET block == Strip(section_block)
        m     == MatchedHeader(block)
    IN  IF block = <<>> \/ m = 0 THEN d
        ELSE IF Strip(Tail(block)) = <<>> /\ sections_mapping[m].key \in DOMAIN d THEN d
        ELSE DictPut(d, sections_mapping[m].key, Strip(Tail(block)))

\* body of the loop 202-214 for one block
StoreSection(d, section_block) ==
    LET block == Strip(section_block)
        m     == MatchedHeader(block)
    IN  IF block = <<>> \/ m = 0 THEN d
        ELSE DictPut(d, sections_mapping[m].key, Strip(Tail(block)))

\* the loop 202-214 from the i-th block on
RECURSIVE StoreSections(_, _, _)
StoreSections(blocks, i, d) ==
    IF i > Len(blocks) THEN d
    ELSE StoreSections(blocks, i + 1, StoreSection(d, blocks[i]))

EmptyDict == [k \in {} |-> <<>>]

\* parsed_content after line 214
ParsedContent(text) == StoreSections(SectionsRaw(text), 1, EmptyDict)

\* ------------------------------------------------------------------------
\* Main-issue lines (main.py 222-248)
\* ------------------------------------------------------------------------

\* "\((\d+)%\)" matches at position j; the digits end right before "%)"
GroupEnd(line, j) ==
    LET nd == {k \in (j + 1)..Len(line) : line[k] \notin Digits}
    IN  IF nd = {} THEN 0 ELSE SetMin(nd)

GroupAt(line, j) ==
    /\ j >= 1 /\ j <= Len(line) /\ line[j] = "("
    /\ LET k == GroupEnd(line, j)
       IN  k > j + 1 /\ line[k] = "%" /\ k + 1 <= Len(line) /\ line[k + 1] = ")"

\* "\s*\((\d+)%\)" matches right after position e
NextNonSpace(line, e) ==
    LET ns == {j \in (e + 1)..Len(line) : line[j] \notin WS}
    IN  IF ns = {} THEN 0 ELSE SetMin(ns)

NameEnds(line) == {e \in 1..Len(line) : GroupAt(line, NextNonSpace(line, e))}

\* number of whitespace characters "\s*" can take after the list marker
MarkerSpaces(line) ==
    LET ns == {j \in 2..Len(line) : line[j] \notin WS}
    IN  IF ns = {} THEN Len(line) - 1 ELSE SetMin(ns) - 2

\* issue_line_pattern.match(line): the backtracking order of
\* ^(?:[-*]\s*)?(.+?)\s*\((\d+)%\): with the marker first, "\s*" after it as
\* long as possible, the name as short as possible; without the marker last.
NameStart(line) ==
    LET ends   == NameEnds(line)
        withM  == IF line # <<>> /\ line[1] \in ListMarkers
                  THEN {s \in 2..(2 + MarkerSpaces(line)) : \E e \in ends : e >= s}
                  ELSE {}
    IN  IF withM # {} THEN SetMax(withM)
        ELSE IF ends # {} THEN 1 ELSE 0

\* the pattern with a greedy name, "(.+)" for "(.+?)"
issue_line_pattern_greedy(line) ==
    LET s == NameStart(line)
    IN  IF s = 0 THEN [ok |-> FALSE, name |-> <<>>, digits |-> <<>>]
        ELSE LET e == SetMax({x \in NameEnds(line) : x >= s})
                 j == NextNonSpace(line, e)
             IN  [ok |-> TRUE, name |-> SubSeq(line, s, e),
                  digits |-> SubSeq(line, j + 1, GroupEnd(line, j) - 1)]

issue_line_pattern(line) ==
    LET s == NameStart(line)
    IN  IF s = 0 THEN [ok |-> FALSE, name |-> <<>>, digits |-> <<>>]
        ELSE LET e == SetMin({x \in NameEnds(line) : x >= s})
                 j == NextNonSpace(line, e)
             IN  [ok |-> TRUE, name |-> SubSeq(line, s, e),
                  digits |-> SubSeq(line, j + 1, GroupEnd(line, j) - 1)]

Contains(s, c) == \E i \in 1..Len(s) : s[i] = c

Issue(n, p) == [issue |-> n, percentage |-> p]

\* the except branch if it kept only the text before the parenthesis
FallbackFailedNamePart(line, name_part) == Issue(name_part, 0)

\* the except branch at 245-246
FallbackFailed(line, name_part) == Issue(line, 0)

\* lines 240-248
FallbackIssue(line) ==
    IF Contains(line, "(") /\ Contains(line, ")")
    THEN LET parts        == SplitOn(line, "(")
             name_part    == Strip(parts[1])
             percent_part == Strip(RemoveChar(Replace(parts[2], <<"%", ")">>, <<>>), "%"))
             n            == ParseInt(percent_part)
         IN  IF n.ok THEN Issue(name_part, n.val) ELSE FallbackFailed(line, name_part)
    ELSE Issue(line, 0)

\* body of the loop 229-248 for one stripped, non-empty line
ParseIssueLine(line) ==
    LET match == issue_line_pattern(line)
    IN  IF match.ok
        THEN Issue(Strip(match.name), DecimalValue(match.digits))
        ELSE FallbackIssue(line)

RECURSIVE ParseLines(_, _)
ParseLines(lines, i) ==
    IF i > Len(lines) THEN <<>>
    ELSE LET line == Strip(lines[i])
         IN  (IF line = <<>> THEN <<>> ELSE <<ParseIssueLine(line)>>)
             \o ParseLines(lines, i + 1)

\* gemini_main_issues after line 248
ParseMainIssues(main_issues_raw) == ParseLines(SplitOn(main_issues_raw, "\n"), 1)


\* lines 250-252
EnsureMainIssue(issues, scale) ==
    IF issues = <<>> /\ scale # "N/A"
    THEN <<Issue(<<"Hair loss consistent with Norwood Scale ", scale>>, 100)>>
    ELSE issues

\* lines 217-220: parsed_content.get(key, default).replace('*', '').strip()
CleanField(parsed, key, default) ==
    Strip(RemoveChar(DictGet(parsed, key, default), "*"))

\* ------------------------------------------------------------------------
\* Bounds and input sets
\* ------------------------------------------------------------------------

\* concurrent requests served by the threaded server
NumRequests == 2

Requests == 1..NumRequests

None == "None"

UNBOUND == "<unbound local>"

\* the same for a local that will hold text
UnboundText == <<UNBOUND>>

\* what str(gradio_result[0]) can be
GradioLabels == {"3", "N/A"}

H_SYMPTOMS == sections_mapping[1].header

H_MAIN == sections_mapping[2].header

H_OVERALL == sections_mapping[3].header

H_CAUSES == sections_mapping[4].header

H_TREATMENTS == sections_mapping[5].header

\* answers of gemini_model.generate_content(...).text
WellFormedText ==
    Bold(H_SYMPTOMS) \o <<"\n", "a", " ", "a", "\n">>
    \o Bold(H_MAIN) \o <<"\n", "-", " ", "a", " ", "(", "3", "5", "%", ")", "\n">>
    \o Bold(H_OVERALL) \o <<"\n", "9", "5", "%", "\n">>
    \o Bold(H_CAUSES) \o <<"\n", "a", "\n">>
    \o Bold(H_TREATMENTS) \o <<"\n", "*", " ", "a">>

NoSectionText == <<"a", " ", "a">>

EmptyBodyText ==
    <<H_SYMPTOMS, "\n", H_MAIN, "\n", H_CAUSES, " ", "*", "*", "\n", H_TREATMENTS, " ", "a">>

BoldIssueText ==
    <<H_MAIN, "\n", "*", "*", "a", "*", "*", " ", "(", "3", "5", "%", ")", "\n",
      "(", "3", "5", "%", ")">>

NegativeIssueText ==
    <<H_MAIN, "\n", "a", " ", "(", "-", "5", "%", ")", "\n", "a", " ", "a">>

GeminiTexts ==
    {WellFormedText, NoSectionText, EmptyBodyText, BoldIssueText, NegativeIssueText}

\* ------------------------------------------------------------------------
\* State
\* ------------------------------------------------------------------------

VARIABLES
    gradio_client,                  \* global handle, main.py 56
    gemini_model,                   \* global handle, main.py 40
    pc,                             \* position of each request
    image_url,                      \* data.get('imageUrl')
    norwood_scale,
    segmentation_image_path,
    hair_segmentation_image_data,
    mime_type,
    gemini_symptoms,
    gemini_main_issues,
    gemini_overall_health_percentage,
    gemini_causes,
    gemini_treatments,
    gemini_raw_insight,
    response,                       \* what the request was answered with
    gemini_text,                    \* splitter on its own: the text to split
    sections_raw,                   \* line 200
    parsed_content,                 \* line 189, filled at 212
    text_pc,
    line_form,                      \* issue parser on its own: how the line was written
    main_issues_raw,                \* line 223
    parsed_issues,                  \* gemini_main_issues after line 248
    line_pc

globals == <<gradio_client, gemini_model>>

gradio_locals ==
    <<norwood_scale, segmentation_image_path, hair_segmentation_image_data, mime_type>>

gemini_locals ==
    <<gemini_symptoms, gemini_main_issues, gemini_overall_health_percentage,
      gemini_causes, gemini_treatments, gemini_raw_insight>>

flow_vars == <<globals, pc, image_url, gradio_locals, gemini_locals, response>>

text_vars == <<gemini_text, sections_raw, parsed_content, text_pc>>

line_vars == <<line_form, main_issues_raw, parsed_issues, line_pc>>

vars == <<flow_vars, text_vars, line_vars>>

NoResponse == [status |-> 0]

\* no request in progress
NoRequests ==
    /\ pc = [r \in Requests |-> "idle"]
    /\ image_url = [r \in Requests |-> None]
    /\ norwood_scale = [r \in Requests |-> UNBOUND]
    /\ segmentation_image_path = [r \in Requests |-> UNBOUND]
    /\ hair_segmentation_image_data = [r \in Requests |-> UNBOUND]
    /\ mime_type = [r \in Requests |-> UNBOUND]
    /\ gemini_symptoms = [r \in Requests |-> UnboundText]
    /\ gemini_main_issues = [r \in Requests |-> UNBOUND]
    /\ gemini_overall_health_percentage = [r \in Requests |-> UnboundText]
    /\ gemini_causes = [r \in Requests |-> UnboundText]
    /\ gemini_treatments = [r \in Requests |-> UnboundText]
    /\ gemini_raw_insight = [r \in Requests |-> UnboundText]
    /\ response = [r \in Requests |-> NoResponse]

NoText ==
    /\ gemini_text = <<>>
    /\ sections_raw = <<>>
    /\ parsed_content = EmptyDict
    /\ text_pc = "off"

FreeForm == [kind |-> "free"]

NoLine ==
    /\ line_form = FreeForm
    /\ main_issues_raw = <<>>
    /\ parsed_issues = <<>>
    /\ line_pc = "off"

\* module start: configure_gemini() at 53 and initialize_gradio_client() at 69
\* have each either set their handle or left it None
Init ==
    /\ gradio_client \in {None, "Client"}
    /\ gemini_model \in {None, "Model"}
    /\ NoRequests
    /\ NoText
    /\ NoLine

Goto(r, where) == pc' = [pc EXCEPT ![r] = where]

Answer(r, resp) ==
    /\ response' = [response EXCEPT ![r] = resp]
    /\ Goto(r, "done")

\* ------------------------------------------------------------------------
\* check_clients (main.py 72-82), one step per read or write of a global
\* ------------------------------------------------------------------------

\* a POST /predict-hair arrives; before_request runs first
ReceiveRequest(r) ==
    /\ pc[r] = "idle"
    /\ \E url \in {None, "http://img"} : image_url' = [image_url EXCEPT ![r] = url]
    /\ Goto(r, "check_gradio")
    /\ UNCHANGED <<globals, gradio_locals, gemini_locals, response, text_vars, line_vars>>

\* line 75
CheckGradio(r) ==
    /\ pc[r] = "check_gradio"
    /\ Goto(r, IF gradio_client = None THEN "init_gradio" ELSE "check_gemini")
    /\ UNCHANGED <<globals, image_url, gradio_locals, gemini_locals, response, text_vars, line_vars>>

\* lines 58-66, called at 76: Client(...) returns or raises
initialize_gradio_client(r) ==
    /\ pc[r] = "init_gradio"
    /\ \E connected \in BOOLEAN :
         gradio_client' = IF connected THEN "Client" ELSE None
    /\ Goto(r, "recheck_gradio")
    /\ UNCHANGED <<gemini_model, image_url, gradio_locals, gemini_locals, response, text_vars, line_vars>>

\* lines 77-78
RecheckGradio(r) ==
    /\ pc[r] = "recheck_gradio"
    /\ IF gradio_client = None
       THEN Answer(r, [status |-> 503, error |-> "Gradio client not initialized. Please try again later."])
       ELSE Goto(r, "check_gemini") /\ UNCHANGED response
    /\ UNCHANGED <<globals, image_url, gradio_locals, gemini_locals, text_vars, line_vars>>

\* line 79
CheckGemini(r) ==
    /\ pc[r] = "check_gemini"
    /\ Goto(r, IF gemini_model = None THEN "init_gemini" ELSE "predict_hair")
    /\ UNCHANGED <<globals, image_url, gradio_locals, gemini_locals, response, text_vars, line_vars>>

\* lines 41-50, called at 80
configure_gemini(r) ==
    /\ pc[r] = "init_gemini"
    /\ \E configured \in BOOLEAN :
         gemini_model' = IF configured THEN "Model" ELSE None
    /\ Goto(r, "recheck_gemini")
    /\ UNCHANGED <<gradio_client, image_url, gradio_locals, gemini_locals, response, text_vars, line_vars>>

\* lines 81-82
RecheckGemini(r) ==
    /\ pc[r] = "recheck_gemini"
    /\ IF gemini_model = None
       THEN Answer(r, [status |-> 503, error |-> "Google AI Studio model not initialized. Please check API key."])
       ELSE Goto(r, "predict_hair") /\ UNCHANGED response
    /\ UNCHANGED <<globals, image_url, gradio_locals, gemini_locals, text_vars, line_vars>>

\* ------------------------------------------------------------------------
\* predict_hair (main.py 85-285)
\* ------------------------------------------------------------------------

Str(x) == <<x>>

GRADIO_FAILED == "N/A (Gradio failed)"

\* lines 86-96
PredictHairEntry(r) ==
    /\ pc[r] = "predict_hair"
    /\ IF image_url[r] = None
       THEN /\ Answer(r, [status |-> 400, error |-> "imageUrl is required"])
            /\ UNCHANGED gradio_locals
       ELSE /\ norwood_scale' = [norwood_scale EXCEPT ![r] = "N/A"]
            /\ hair_segmentation_image_data' =
                   [hair_segmentation_image_data EXCEPT ![r] = None]
            /\ mime_type' = [mime_type EXCEPT ![r] = None]
            /\ UNCHANGED <<segmentation_image_path, response>>
            /\ Goto(r, "gradio")
    /\ UNCHANGED <<globals, image_url, gemini_locals, text_vars, line_vars>>

\* the except branch 126-133
GradioExcept(r) ==
    /\ norwood_scale' = [norwood_scale EXCEPT ![r] = GRADIO_FAILED]
    /\ hair_segmentation_image_data' = [hair_segmentation_image_data EXCEPT ![r] = None]
    /\ mime_type' = [mime_type EXCEPT ![r] = None]

\* lines 98-133.  gradio_client.predict on a None handle raises AttributeError
\* inside the try; otherwise the call raises, or returns (label, path) and the
\* file at path exists, is missing, or cannot be read
CallGradio(r) ==
    /\ pc[r] = "gradio"
    /\ \/ /\ gradio_client = None
          /\ GradioExcept(r)
          /\ UNCHANGED segmentation_image_path
       \/ /\ gradio_client # None
          /\ \/ /\ GradioExcept(r)
                /\ UNCHANGED segmentation_image_path
             \/ \E label \in GradioLabels, file \in {"exists", "missing", "unreadable"} :
                  /\ segmentation_image_path' =
                         [segmentation_image_path EXCEPT ![r] = "/tmp/gradio/image.png"]
                  /\ IF file = "unreadable"
                     THEN GradioExcept(r)
                     ELSE /\ norwood_scale' = [norwood_scale EXCEPT ![r] = label]
                          /\ hair_segmentation_image_data' =
                                 [hair_segmentation_image_data EXCEPT
                                    ![r] = IF file = "exists" THEN "bytes" ELSE None]
                          /\ mime_type' =
                                 [mime_type EXCEPT
                                    ![r] = IF file = "exists" THEN "image/png" ELSE None]
    /\ Goto(r, "gemini")
    /\ UNCHANGED <<globals, image_url, gemini_locals, response, text_vars, line_vars>>

SetInsight(r, symptoms, issues, overall, causes, treatments, raw) ==
    /\ gemini_symptoms' = [gemini_symptoms EXCEPT ![r] = symptoms]
    /\ gemini_main_issues' = [gemini_main_issues EXCEPT ![r] = issues]
    /\ gemini_overall_health_percentage' =
           [gemini_overall_health_percentage EXCEPT ![r] = overall]
    /\ gemini_causes' = [gemini_causes EXCEPT ![r] = causes]
    /\ gemini_treatments' = [gemini_treatments EXCEPT ![r] = treatments]
    /\ gemini_raw_insight' = [gemini_raw_insight EXCEPT ![r] = raw]

\* lines 137-142 followed by the else branch 254-255
InsightSkipped(r) ==
    SetInsight(r, Str("N/A"), <<>>, Str("N/A"), Str("N/A"), Str("N/A"),
               Str("Failed to generate detailed insight."))

\* the except branch 257-267
InsightFailed(r) ==
    SetInsight(r, Str("Failed to generate insights."),
               <<Issue(Str("Analysis unavailable"), 0)>>, Str("N/A"),
               Str("Failed to generate insights."), Str("Failed to generate insights."),
               <<"Failed to generate or parse detailed insight from AI Studio: ", "e">>)

\* lines 177-252 for the answer text
InsightParsed(r, text) ==
    LET content == ParsedContent(text)
        issues_raw == DictGet(content, "main_issues", <<>>)
    IN  SetInsight(r,
            CleanField(content, "symptoms", Str("No symptoms insight provided.")),
            EnsureMainIssue(ParseMainIssues(issues_raw), norwood_scale[r]),
            CleanField(content, "overall_health_percentage", Str("N/A")),
            CleanField(content, "causes", Str("No causes insight provided.")),
            CleanField(content, "treatments", Str("No treatment insight provided.")),
            text)

\* lines 137-267
CallGemini(r) ==
    /\ pc[r] = "gemini"
    /\ \/ /\ gemini_model = None
          /\ InsightSkipped(r)
       \/ /\ gemini_model # None
          /\ \/ InsightFailed(r)
             \/ \E text \in GeminiTexts : InsightParsed(r, text)
    /\ Goto(r, "respond")
    /\ UNCHANGED <<globals, image_url, gradio_locals, response, text_vars, line_vars>>

\* the dict built at 271-283
structured_response(r) ==
    [label |-> <<"Norwood Scale: ", norwood_scale[r]>>,
     symptoms |-> gemini_symptoms[r],
     main_issues |-> gemini_main_issues[r],
     overall_health_percentage |-> gemini_overall_health_percentage[r],
     causes |-> gemini_causes[r],
     treatments |-> gemini_treatments[r],
     confidences |-> <<[label |-> <<"Norwood Scale ", norwood_scale[r]>>, score |-> 1]>>,
     gemini_raw_insight |-> gemini_raw_insight[r],
     segmentation_image_url |-> segmentation_image_path[r]]

\* lines 269-285: reading the unbound local segmentation_image_path raises
\* UnboundLocalError out of the view, which the server answers with a 500
Respond(r) ==
    /\ pc[r] = "respond"
    /\ IF segmentation_image_path[r] = UNBOUND
       THEN Answer(r, [status |-> 500, error |-> "UnboundLocalError"])
       ELSE Answer(r, [status |-> 200, body |-> structured_response(r)])
    /\ UNCHANGED <<globals, image_url, gradio_locals, gemini_locals, text_vars, line_vars>>

Next ==
    \E r \in Requests :
        \/ ReceiveRequest(r)
        \/ CheckGradio(r)
        \/ initialize_gradio_client(r)
        \/ RecheckGradio(r)
        \/ CheckGemini(r)
        \/ configure_gemini(r)
        \/ RecheckGemini(r)
        \/ PredictHairEntry(r)
        \/ CallGradio(r)
        \/ CallGemini(r)
        \/ Respond(r)

Spec == Init /\ [][Next]_vars

\* ------------------------------------------------------------------------
\* The section splitter on its own (specification SpecText)
\* ------------------------------------------------------------------------

\* longest answer text, in pieces
MaxPieces == 4

\* the pieces an answer text is put together from: plain characters, two of
\* the headers (the first and a later one of the template), bare and bold
TextPieces ==
    {<<"*">>, <<"a">>, <<" ">>, <<H_SYMPTOMS>>, <<H_CAUSES>>, Bold(H_SYMPTOMS), Bold(H_CAUSES)}

RECURSIVE Flatten(_)
Flatten(pieces) == IF pieces = <<>> THEN <<>> ELSE Head(pieces) \o Flatten(Tail(pieces))

SeqsUpTo(A, n) == UNION {[1..k -> A] : k \in 0..n}

AnswerTexts == {Flatten(ps) : ps \in SeqsUpTo(TextPieces, MaxPieces)}

InitText ==
    /\ gradio_client = "Client"
    /\ gemini_model = "Model"
    /\ NoRequests
    /\ NoLine
    /\ gemini_text \in AnswerTexts
    /\ sections_raw = <<>>
    /\ parsed_content = EmptyDict
    /\ text_pc = "delimit"

\* lines 191-200
SplitSections ==
    /\ text_pc = "delimit"
    /\ sections_raw' = SectionsRaw(gemini_text)
    /\ text_pc' = "store"
    /\ UNCHANGED <<gemini_text, parsed_content, flow_vars, line_vars>>

\* lines 202-214
StoreAllSections ==
    /\ text_pc = "store"
    /\ parsed_content' = StoreSections(sections_raw, 1, EmptyDict)
    /\ text_pc' = "done"
    /\ UNCHANGED <<gemini_text, sections_raw, flow_vars, line_vars>>

NextText == SplitSections \/ StoreAllSections

SpecText == InitText /\ [][NextText]_vars

\* ------------------------------------------------------------------------
\* The issue parser on its own (specification SpecLine)
\* ------------------------------------------------------------------------

\* longest issue name of a line written in the prompt's format
MaxNameLen == 3

\* longest line written freely
MaxLineLen == 5

LineChars == {"a", " ", "*", "-", "(", ")", "%", "5"}

NameChars == {"a", " ", "*", "-", "(", ")", "5"}

FormMarkers == {<<>>, <<"-">>, <<"*", " ">>}

FormSpaces == {<<>>, <<" ">>}

FormDigits == {<<"5">>, <<"3", "5">>, <<"0", "7">>}

FormTrailing == {<<>>, <<" ", "a">>, <<"(", "3", "%", ")">>}

FormNames == {n \in SeqsUpTo(NameChars, MaxNameLen) : Strip(n) # <<>>}

\* "<marker><name><space>(<digits>%)<trailing>"
FormLine(f) == f.marker \o f.name \o f.space \o <<"(">> \o f.digits \o <<"%", ")">> \o f.trailing

LineForms ==
    [kind : {"form"}, marker : FormMarkers, name : FormNames, space : FormSpaces,
     digits : FormDigits, trailing : FormTrailing]

InitLine ==
    /\ gradio_client = "Client"
    /\ gemini_model = "Model"
    /\ NoRequests
    /\ NoText
    /\ \/ /\ line_form \in LineForms
          /\ main_issues_raw = FormLine(line_form)
       \/ /\ line_form = FreeForm
          /\ main_issues_raw \in SeqsUpTo(LineChars, MaxLineLen)
    /\ parsed_issues = <<>>
    /\ line_pc = "parse"

\* lines 223-248
ParseMainIssuesBody ==
    /\ line_pc = "parse"
    /\ parsed_issues' = ParseMainIssues(main_issues_raw)
    /\ line_pc' = "done"
    /\ UNCHANGED <<line_form, main_issues_raw, flow_vars, text_vars>>

NextLine == ParseMainIssuesBody

SpecLine == InitLine /\ [][NextLine]_vars

\* ------------------------------------------------------------------------
\* Claims about the request flow (specification Spec)
\* ------------------------------------------------------------------------

Answered(r) == pc[r] = "done"

PassedClientCheck(r) == Answered(r) /\ response[r].status # 503

\* the request got as far as parsing an answer of the text generation
Generated(r) == pc[r] \in {"respond", "done"} /\ gemini_raw_insight[r] \in GeminiTexts

\* C1: every request that carries an imageUrl and passes the client check is
\* answered with the structured report (status 200), whatever the remote steps
\* did; a failing classification call never ends the request in a raised error.
C1_AlwaysStructuredReport ==
    \A r \in Requests :
        (PassedClientCheck(r) /\ image_url[r] # None) => response[r].status = 200

KnownLabel(scale) == scale \notin {"N/A", GRADIO_FAILED}

ParsedIssuesOf(r) ==
    ParseMainIssues(DictGet(ParsedContent(gemini_raw_insight[r]), "main_issues", <<>>))

\* C2: when the issue parser yields nothing, mainIssues is exactly one synthetic
\* issue (100%, naming the label) if the classification label is known, and
\* stays empty if the label is the placeholder or failure-marked; when the
\* parser yields issues, mainIssues is that sequence unchanged.
C2_SyntheticIssueOnlyForKnownLabel ==
    \A r \in Requests :
        Generated(r) =>
            IF ParsedIssuesOf(r) # <<>>
            THEN gemini_main_issues[r] = ParsedIssuesOf(r)
            ELSE IF KnownLabel(norwood_scale[r])
                 THEN /\ Len(gemini_main_issues[r]) = 1
                      /\ gemini_main_issues[r][1].percentage = 100
                      /\ Contains(gemini_main_issues[r][1].issue, norwood_scale[r])
                 ELSE gemini_main_issues[r] = <<>>

FieldDefault(key) ==
    CASE key = "symptoms" -> Str("No symptoms insight provided.")
      [] key = "causes" -> Str("No causes insight provided.")
      [] key = "treatments" -> Str("No treatment insight provided.")
      [] key = "overall_health_percentage" -> Str("N/A")

FieldOf(r, key) ==
    CASE key = "symptoms" -> gemini_symptoms[r]
      [] key = "causes" -> gemini_causes[r]
      [] key = "treatments" -> gemini_treatments[r]
      [] key = "overall_health_percentage" -> gemini_overall_health_percentage[r]

TextFields == {"symptoms", "causes", "treatments", "overall_health_percentage"}

\* C3: after a successful text generation each of symptoms, causes, treatments
\* and overallHealth is the section body when that body is present and
\* non-empty after markup-stripping and trimming, and the field's default
\* string otherwise; it is never the empty string.
C3_FieldIsBodyOrDefault ==
    \A r \in Requests : \A key \in TextFields :
        Generated(r) =>
            LET sections == ParsedContent(gemini_raw_insight[r])
                body == IF key \in DOMAIN sections
                        THEN Strip(RemoveChar(sections[key], "*")) ELSE <<>>
            IN  /\ FieldOf(r, key) = IF body # <<>> THEN body ELSE FieldDefault(key)
                /\ FieldOf(r, key) # <<>>

Reported(r) == Answered(r) /\ response[r].status = 200

\* C4: every issue of every produced report has a non-negative integer
\* percentage.
C4_PercentageNonNegative ==
    \A r \in Requests :
        Reported(r) =>
            \A i \in 1..Len(response[r].body.main_issues) :
                response[r].body.main_issues[i].percentage \in Nat

\* C5: every issue of every produced report has a name that is non-empty,
\* trimmed and free of the emphasis character '*'.
C5_NameCleaned ==
    \A r \in Requests :
        Reported(r) =>
            \A i \in 1..Len(response[r].body.main_issues) :
                LET name == response[r].body.main_issues[i].issue
                IN  name # <<>> /\ Strip(name) = name /\ ~Contains(name, "*")

\* C10: while a request is in predict_hair, up to the call that uses it, each
\* global client handle is initialised, under every interleaving of requests.
C10_HandlesSetInHandler ==
    \A r \in Requests :
        /\ pc[r] \in {"predict_hair", "gradio"} => gradio_client # None
        /\ pc[r] \in {"predict_hair", "gradio", "gemini"} => gemini_model # None

\* ------------------------------------------------------------------------
\* Claims about the section splitter (specification SpecText)
\* ------------------------------------------------------------------------

BoldAt(text, i, h) == i + 4 <= Len(text) /\ SubSeq(text, i, i + 4) = Bold(h)

\* the text with the bold header at i written plain
Unbold(text, i) == SubSeq(text, 1, i - 1) \o <<text[i + 2]>> \o SubSeq(text, i + 5, Len(text))

\* the bold header at i touches neither a further '*' nor another header
StandsAlone(text, i) ==
    /\ i = 1 \/ text[i - 1] \notin ({"*"} \cup Headers)
    /\ i + 4 = Len(text) \/ text[i + 5] \notin ({"*"} \cup Headers)

\* C8 as stated: for every text and every header written bold in it, the
\* section map of the text equals the section map of the text with that
\* occurrence written plain.
C8_BoldSameAsPlain ==
    text_pc = "done" =>
        \A h \in Headers : \A i \in 1..Len(gemini_text) :
            BoldAt(gemini_text, i, h) =>
                parsed_content = ParsedContent(Unbold(gemini_text, i))

\* C8 amended: the two section maps always have the same keys, and they are
\* equal for a bold header that is not directly preceded or followed by a
\* further '*' or by another header.
C8_BoldAloneSameAsPlain ==
    text_pc = "done" =>
        \A h \in Headers : \A i \in 1..Len(gemini_text) :
            BoldAt(gemini_text, i, h) =>
                LET plain == ParsedContent(Unbold(gemini_text, i))
                IN  /\ DOMAIN parsed_content = DOMAIN plain
                    /\ StandsAlone(gemini_text, i) => parsed_content = plain

C8_Witness ==
    /\ text_pc = "done"
    /\ gemini_text = <<"a">> \o Bold(H_CAUSES) \o <<" ", "a">>
    /\ parsed_content = [k \in {"causes"} |-> <<"a">>]

\* blocks of sections_raw that start with the m-th header
BlocksOf(m) ==
    {i \in 1..Len(sections_raw) :
        StartsWith(Strip(sections_raw[i]), <<sections_mapping[m].header>>)}

BlockBody(i) == Strip(Tail(Strip(sections_raw[i])))

OccurrencesOf(m) ==
    {i \in 1..Len(gemini_text) : gemini_text[i] = sections_mapping[m].header}

\* the text after the occurrence at p up to the next header, trimmed
PlainBodyAfter(p) ==
    LET later == {j \in (p + 1)..Len(gemini_text) : gemini_text[j] \in Headers}
        stop  == IF later = {} THEN Len(gemini_text) + 1 ELSE SetMin(later)
    IN  Strip(SubSeq(gemini_text, p + 1, stop - 1))

\* C9 as stated: when a header occurs more than once, the section map holds
\* the body of the last occurrence whose body is non-empty.
C9_LastNonEmptyWins ==
    text_pc = "done" =>
        \A m \in 1..Len(sections_mapping) :
            LET filled == {i \in BlocksOf(m) : BlockBody(i) # <<>>}
            IN  (Cardinality(OccurrencesOf(m)) > 1 /\ filled # {}) =>
                    /\ sections_mapping[m].key \in DOMAIN parsed_content
                    /\ parsed_content[sections_mapping[m].key] = BlockBody(SetMax(filled))

\* C9 amended: every occurrence of a header starts one block; the section map
\* holds one body per header that occurs, the body of its last occurrence,
\* empty or not (in a text without '*' that is the trimmed text from the last
\* occurrence to the next header), and no entry for a header that does not occur.
C9_LastOccurrenceWins ==
    text_pc = "done" =>
        \A m \in 1..Len(sections_mapping) :
            LET key == sections_mapping[m].key
            IN  /\ Cardinality(BlocksOf(m)) = Cardinality(OccurrencesOf(m))
                /\ IF OccurrencesOf(m) = {}
                   THEN key \notin DOMAIN parsed_content
                   ELSE /\ key \in DOMAIN parsed_content
                        /\ parsed_content[key] = BlockBody(SetMax(BlocksOf(m)))
                        /\ ~Contains(gemini_text, "*") =>
                               parsed_content[key] = PlainBodyAfter(SetMax(OccurrencesOf(m)))

C9_Witness ==
    /\ text_pc = "done"
    /\ gemini_text = <<H_CAUSES, "a", " ", H_CAUSES>>
    /\ parsed_content = [k \in {"causes"} |-> <<>>]

\* ------------------------------------------------------------------------
\* Claims about the issue parser (specification SpecLine)
\* ------------------------------------------------------------------------

TheLine == Strip(main_issues_raw)

\* the text between the first '(' and the first ')' after it
InParentheses(line) ==
    LET open   == SetMin({i \in 1..Len(line) : line[i] = "("})
        closes == {j \in (open + 1)..Len(line) : line[j] = ")"}
    IN  SubSeq(line, open + 1, SetMin(closes) - 1)

HasParentheses(line) ==
    \E i, j \in 1..Len(line) : i < j /\ line[i] = "(" /\ line[j] = ")"

IsInteger(s) ==
    LET t == Strip(s)
        u == IF t # <<>> /\ t[1] \in {"-", "+"} THEN Tail(t) ELSE t
    IN  u # <<>> /\ \A i \in 1..Len(u) : u[i] \in Digits

BeforeFirstParenthesis(line) ==
    Strip(SubSeq(line, 1, SetMin({i \in 1..Len(line) : line[i] = "("}) - 1))

\* the text after the first '(' up to the next '(', without "%)" and "%"
DigitPortion(line) ==
    LET open  == SetMin({i \in 1..Len(line) : line[i] = "("})
        later == {j \in (open + 1)..Len(line) : line[j] = "("}
        stop  == IF later = {} THEN Len(line) + 1 ELSE SetMin(later)
    IN  Strip(RemoveChar(Replace(SubSeq(line, open + 1, stop - 1), <<"%", ")">>, <<>>), "%"))

\* C6 as stated: a line the primary pattern fails on, with a parenthesised
\* text that is no integer, gives the issue named by the trimmed text before
\* the first '(' with percentage 0.
C6_UnparsableGivesNamePart ==
    (line_pc = "done" /\ TheLine # <<>> /\ ~issue_line_pattern(TheLine).ok
        /\ HasParentheses(TheLine) /\ ~IsInteger(InParentheses(TheLine)))
    => parsed_issues = <<Issue(BeforeFirstParenthesis(TheLine), 0)>>

\* C6 amended: a line the primary pattern fails on, that contains '(' and ')',
\* and whose text after the first '(' (up to the next '(', "%)" and "%"
\* removed, trimmed) is no integer, gives the issue named by the whole trimmed
\* line with percentage 0.
C6_UnparsableGivesWholeLine ==
    (line_pc = "done" /\ TheLine # <<>> /\ ~issue_line_pattern(TheLine).ok
        /\ Contains(TheLine, "(") /\ Contains(TheLine, ")")
        /\ ~IsInteger(DigitPortion(TheLine)))
    => parsed_issues = <<Issue(TheLine, 0)>>

C6_Witness ==
    /\ line_pc = "done"
    /\ main_issues_raw = <<"a", " ", "(", "a", ")">>
    /\ parsed_issues = <<Issue(<<"a", " ", "(", "a", ")">>, 0)>>

\* "(digits%)" starts at position j of s
PercentGroupAt(s, j) ==
    \E k \in (j + 2)..(Len(s) - 1) :
        /\ s[j] = "(" /\ s[k] = "%" /\ s[k + 1] = ")"
        /\ \A d \in (j + 1)..(k - 1) : s[d] \in Digits

\* the line reads in one way only: a name written without a list marker does
\* not begin with a list-marker character, and no percentage group starts
\* inside the name
ReadsOneWay(f) ==
    LET n == Strip(f.name)
    IN  /\ f.marker = <<>> => n[1] \notin ListMarkers
        /\ \A j \in 2..Len(n) : ~PercentGroupAt(n, j)

\* C7: a line "<list marker><name><space>(<digits>%)<trailing text>" gives
\* exactly one issue, named by the trimmed name without the list marker, with
\* the percentage the digits denote; the trailing text is discarded.
C7_PromptFormatLine ==
    (line_pc = "done" /\ line_form.kind = "form" /\ ReadsOneWay(line_form))
    => parsed_issues =
           <<Issue(Strip(line_form.name), DecimalValue(line_form.digits))>>

C7_Witness ==
    /\ line_pc = "done"
    /\ line_form = [kind |-> "form", marker |-> <<"-">>, name |-> <<" ", "a", "a">>,
                    space |-> <<" ">>, digits |-> <<"3", "5">>, trailing |-> <<" ", "a">>]
    /\ parsed_issues = <<Issue(<<"a", "a">>, 35)>>

====
